---- MODULE Spec2Model ----
(***************************************************************************)
(* Model of python_tsp/brute_force.py: solve_tsp_brute_force and its       *)
(* helper _permutation_distance.                                           *)
(*                                                                         *)
(* A caller owns one distance matrix (a mutable array object) and solves   *)
(* first the open and then the closed problem on it, one call after the    *)
(* other.  Array objects live in `heap`, so that the difference            *)
(* between editing the caller's array in place and editing a copy of it is *)
(* visible.  Distances are integers plus the value Infinity (numpy.inf).   *)
(***************************************************************************)
EXTENDS Integers, Sequences, FiniteSets

\* ---------------------------------------------------------------- bounds
\* largest number of nodes
MaxN == 3

\* largest regular distance
MaxDist == 3

\* number of independently chosen off-diagonal entries of a matrix
MaxFree == 5

\* np.inf: greater than every finite total of the model, absorbing in sums
Infinity == 1000

None == "None"

TypeError == "TypeError"

\* no array object (the solver's copy outside an open call)
NoArray == << >>

\* --------------------------------------------------- the caller's matrices
\* Regular distances, and the extreme ones: a negative distance, the largest
\* regular one, and np.inf.
Regular == 0 .. MaxDist

Extreme == {0 - 1, MaxDist, Infinity}

Dist == Regular \cup Extreme

Nodes(n) == 0 .. (n - 1)

Cells(n) == Nodes(n) \X Nodes(n)

OffDiagonal(n) == {c \in Cells(n) : c[1] # c[2]}

\* Off-diagonal cells in a fixed order: the upper triangle row by row, then
\* the lower triangle from the last row up.
CellKey(n, c) ==
    IF c[1] < c[2] THEN c[1] * n + c[2] ELSE n * n + (n - 1 - c[1]) * n + c[2]

CellPos(n, c) == Cardinality({b \in OffDiagonal(n) : CellKey(n, b) < CellKey(n, c)})

FreeCount(n) == IF n * (n - 1) < MaxFree THEN n * (n - 1) ELSE MaxFree

\* the n x n matrix with self-distance d and the values v laid over the
\* off-diagonal cells in order, repeating v when the cells outnumber it
Fill(n, v, d) ==
    [c \in Cells(n) |-> IF c[1] = c[2] THEN d ELSE v[(CellPos(n, c) % Len(v)) + 1]]

\* Matrices the caller may own: any 1 x 1 matrix; regular matrices with a
\* zero diagonal; extreme matrices, whose diagonal repeats their first value.
Matrices(n) ==
    IF n = 1
    THEN {[c \in Cells(1) |-> d] : d \in Dist}
    ELSE {Fill(n, v, 0) : v \in [1 .. FreeCount(n) -> Regular]}
         \cup {Fill(n, v, v[1]) : v \in [1 .. FreeCount(n) -> Extreme]}

\* ------------------------------------------------------------ numpy model
\* distance_matrix.shape[0]
Shape0(m) ==
    CHOOSE n \in 1 .. MaxN : << n - 1, 0 >> \in DOMAIN m /\ << n, 0 >> \notin DOMAIN m

\* float addition with inf: inf + x = inf
Plus(a, b) == IF a = Infinity \/ b = Infinity THEN Infinity ELSE a + b

RECURSIVE SumSeq(_)
SumSeq(s) == IF s = << >> THEN 0 ELSE Plus(Head(s), SumSeq(Tail(s)))

\* distance_matrix[0, :] = 0: the row of node 0 instead of its column
ZeroRow0(m) == [c \in DOMAIN m |-> IF c[1] = 0 THEN 0 ELSE m[c]]

\* distance_matrix[:, 0] = 0
ZeroColumn0(m) == [c \in DOMAIN m |-> IF c[2] = 0 THEN 0 ELSE m[c]]

\* range(1, n) as a tuple
Range1(n) == [k \in 1 .. (n - 1) |-> k]

Remove(s, i) == [k \in 1 .. (Len(s) - 1) |-> IF k < i THEN s[k] ELSE s[k + 1]]

RECURSIVE Concat(_)
Concat(ss) == IF ss = << >> THEN << >> ELSE Head(ss) \o Concat(Tail(ss))

\* itertools.permutations(s): all orderings of s, as the sequence in which
\* the iterator yields them (lexicographic in the positions of s)
RECURSIVE permutations(_)
permutations(s) ==
    IF s = << >> THEN << << >> >>
    ELSE Concat([i \in 1 .. Len(s) |->
                   LET rest == permutations(Remove(s, i))
                   IN  [k \in 1 .. Len(rest) |-> << s[i] >> \o rest[k]]])

\* the helper without the edge back to node 0
OpenPermutationDistance(permutation, m) ==
    LET ind1 == << 0 >> \o permutation
    IN  SumSeq([k \in 1 .. Len(permutation) |-> m[<< ind1[k], permutation[k] >>]])

\* _permutation_distance(permutation, distance_matrix)
PermutationDistance(permutation, m) ==
    LET ind1 == << 0 >> \o permutation
        ind2 == permutation \o << 0 >>
    IN  SumSeq([k \in 1 .. Len(ind1) |-> m[<< ind1[k], ind2[k] >>]])

\* the comparison with <= : a later tie replaces the best
ImprovesOrTies(distance, best) == distance <= best

\* the comparison turned around
Worsens(distance, best) == distance > best

\* distance < best_distance
Improves(distance, best) == distance < best

\* the tour without the closing node
BuildTourOpen(best, open) == << 0 >> \o best

\* [0] + list(best_solution), and append(0) if not open_tsp
BuildTour(best, open) ==
    IF open THEN << 0 >> \o best ELSE (<< 0 >> \o best) \o << 0 >>

\* the open branch editing the caller's array in place (no copy)
PrepareInPlace(h, open) ==
    IF open
    THEN [ref |-> "caller", heap |-> [h EXCEPT !["caller"] = ZeroColumn0(h["caller"])]]
    ELSE [ref |-> "caller", heap |-> h]

\* the branch taken for the closed problem instead of the open one
PrepareInverted(h, open) ==
    IF ~open
    THEN [ref |-> "copy", heap |-> [h EXCEPT !["copy"] = ZeroColumn0(h["caller"])]]
    ELSE [ref |-> "caller", heap |-> h]

\* the open branch copying the array and leaving column 0 as it is
PrepareCopyOnly(h, open) ==
    IF open
    THEN [ref |-> "copy", heap |-> [h EXCEPT !["copy"] = h["caller"]]]
    ELSE [ref |-> "caller", heap |-> h]

\* if open_tsp: distance_matrix = distance_matrix.copy(); distance_matrix[:, 0] = 0
\* The local name distance_matrix is rebound to the copy; the caller's array
\* object is left as it is.
Prepare(h, open) ==
    IF open
    THEN [ref |-> "copy", heap |-> [h EXCEPT !["copy"] = ZeroColumn0(h["caller"])]]
    ELSE [ref |-> "caller", heap |-> h]

\* ------------------------------------------------------------------ state
VARIABLES
    heap,             \* array objects: the caller's matrix and the solver's copy
    given,            \* the caller's matrix as it was built (never assigned again)
    outcome,          \* per open_tsp value: None, TypeError, or the returned pair
    pc,               \* "idle" (in the caller) or "loop" (in the for statement)
    open_tsp,         \* argument of the running call
    distance_matrix,  \* local name: the array object it is bound to
    iterator,         \* permutations(points): what it has still to yield
    examined,         \* the permutations it has yielded, in order
    best_distance,
    best_solution

vars == << heap, given, outcome, pc, open_tsp, distance_matrix, iterator,
           examined, best_distance, best_solution >>

Init ==
    \E n \in 1 .. MaxN :
      \E m \in Matrices(n) :
          /\ given = m
          /\ heap = [caller |-> m, copy |-> NoArray]
          /\ outcome = [o \in BOOLEAN |-> None]
          /\ pc = "idle"
          /\ open_tsp = FALSE
          /\ distance_matrix = "caller"
          /\ iterator = << >>
          /\ examined = << >>
          /\ best_distance = Infinity
          /\ best_solution = None

\* lines 42-50: the call up to the first iteration.  The caller asks for the
\* open tour first and for the closed tour afterwards.
Call(open) ==
    /\ pc = "idle"
    /\ outcome[open] = None
    /\ open \/ outcome[TRUE] # None
    /\ LET points == Range1(Shape0(heap["caller"]))
           p == Prepare(heap, open)
       IN  /\ heap' = p.heap
           /\ distance_matrix' = p.ref
           /\ iterator' = permutations(points)
    /\ open_tsp' = open
    /\ examined' = << >>
    /\ best_distance' = Infinity
    /\ best_solution' = None
    /\ pc' = "loop"
    /\ UNCHANGED << given, outcome >>

\* lines 50-54: one iteration of the for loop
Iterate ==
    /\ pc = "loop"
    /\ iterator # << >>
    /\ LET permutation == Head(iterator)
           distance == PermutationDistance(permutation, heap[distance_matrix])
       IN  /\ IF Improves(distance, best_distance)
              THEN /\ best_distance' = distance
                   /\ best_solution' = permutation
              ELSE UNCHANGED << best_distance, best_solution >>
           /\ examined' = Append(examined, permutation)
    /\ iterator' = Tail(iterator)
    /\ UNCHANGED << heap, given, outcome, pc, open_tsp, distance_matrix >>

\* the iterator is exhausted: lines 58-62, the tour is built and returned;
\* the solver's copy goes away with the call's frame
Return ==
    /\ pc = "loop"
    /\ iterator = << >>
    /\ best_solution # None
    /\ outcome' = [outcome EXCEPT ![open_tsp] =
                     << BuildTour(best_solution, open_tsp), best_distance >>]
    /\ heap' = [heap EXCEPT !["copy"] = NoArray]
    /\ distance_matrix' = "caller"
    /\ pc' = "idle"
    /\ UNCHANGED << given, open_tsp, iterator, examined, best_distance, best_solution >>

\* the iterator is exhausted and best_solution is still None: list(None) at
\* line 58 raises TypeError, which leaves the call
Raise ==
    /\ pc = "loop"
    /\ iterator = << >>
    /\ best_solution = None
    /\ outcome' = [outcome EXCEPT ![open_tsp] = TypeError]
    /\ heap' = [heap EXCEPT !["copy"] = NoArray]
    /\ distance_matrix' = "caller"
    /\ pc' = "idle"
    /\ UNCHANGED << given, open_tsp, iterator, examined, best_distance, best_solution >>

Next ==
    \/ \E open \in BOOLEAN : Call(open)
    \/ Iterate
    \/ Return
    \/ Raise

Spec == Init /\ [][Next]_vars

\* --------------------------------------------------------------- notions
\* number of nodes of the caller's matrix
N == Shape0(given)

IsFinite(m) == \A c \in DOMAIN m : m[c] # Infinity

\* the call with this open_tsp has come back with a (tour, distance) pair
Returned(o) == outcome[o] # None /\ outcome[o] # TypeError

TourOf(o) == outcome[o][1]

DistanceOf(o) == outcome[o][2]

\* every order of visiting the nodes of S once
RECURSIVE Orders(_)
Orders(S) ==
    IF S = {} THEN {<< >>}
    ELSE UNION {{<< x >> \o t : t \in Orders(S \ {x})} : x \in S}

\* every order of visiting the n nodes once, starting at node 0
VisitingOrders(n) == {<< 0 >> \o t : t \in Orders(Nodes(n) \ {0})}

\* total of the matrix entries over the consecutive pairs of a node sequence
RECURSIVE PathLength(_, _)
PathLength(m, t) ==
    IF Len(t) < 2 THEN 0 ELSE Plus(m[<< t[1], t[2] >>], PathLength(m, Tail(t)))

\* length of the tour that visits t: back to node 0 when closed, not when open
TourLength(m, t, open) ==
    IF open THEN PathLength(m, t) ELSE PathLength(m, t \o << 0 >>)

Minimum(S) == CHOOSE x \in S : \A y \in S : x <= y

ShortestTourLength(m, open) ==
    Minimum({TourLength(m, t, open) : t \in VisitingOrders(Shape0(m))})

\* p comes before q in lexicographic order
LexBefore(p, q) ==
    \E k \in 1 .. Len(p) : p[k] < q[k] /\ \A j \in 1 .. (k - 1) : p[j] = q[j]

\* the matrix [[0,1,2],[1,0,3],[2,3,0]]
Literal == [c \in Cells(3) |-> IF c[1] = c[2] THEN 0 ELSE c[1] + c[2]]

\* distance of a permutation in the caller's matrix, the return edge skipped
SkipReturnDistance(permutation, m) == PathLength(m, << 0 >> \o permutation)

\* a solver of the open problem that branches and skips the return edge:
\* it goes through the permutations ps in lexicographic order
RECURSIVE SearchSkipping(_, _, _, _)
SearchSkipping(ps, m, bd, bs) ==
    IF ps = {} THEN << bs, bd >>
    ELSE LET p == CHOOSE x \in ps : \A y \in ps : x = y \/ LexBefore(x, y)
             d == SkipReturnDistance(p, m)
         IN  IF d < bd
             THEN SearchSkipping(ps \ {p}, m, d, p)
             ELSE SearchSkipping(ps \ {p}, m, bd, bs)

SolveSkipping(m) ==
    LET r == SearchSkipping(Orders(Nodes(Shape0(m)) \ {0}), m, Infinity, None)
    IN  << << 0 >> \o r[1], r[2] >>

\* ---------------------------------------------------------------- claims
\* C1: for a matrix with finite entries, each call returns, and the distance
\* it returns is the least total distance over all tours that start at node
\* 0 and visit every node once (back to 0 when closed, not when open),
\* measured in the caller's matrix.
C1_ReturnsShortest ==
    \A o \in BOOLEAN :
        (IsFinite(given) /\ outcome[o] # None)
            => (Returned(o) /\ DistanceOf(o) = ShortestTourLength(given, o))

C1_Witness ==
    /\ N = 3
    /\ IsFinite(given)
    /\ given[<< 0, 2 >>] # given[<< 2, 0 >>]
    /\ Returned(TRUE)
    /\ Returned(FALSE)
    /\ DistanceOf(FALSE) # DistanceOf(TRUE)

\* C2: a returned tour starts with node 0 and holds every node exactly once
\* in its first n places; it has n places when open and n + 1 when closed,
\* the last one being node 0 again.
C2_TourIsValid ==
    \A o \in BOOLEAN :
        Returned(o) =>
            LET t == TourOf(o)
            IN  /\ Len(t) = IF o THEN N ELSE N + 1
                /\ t[1] = 0
                /\ \A v \in Nodes(N) : Cardinality({k \in 1 .. N : t[k] = v}) = 1
                /\ ~o => t[N + 1] = 0

C2_Witness ==
    /\ N = 3
    /\ Returned(TRUE)
    /\ Returned(FALSE)
    /\ Len(TourOf(TRUE)) = 3
    /\ Len(TourOf(FALSE)) = 4

\* C3: the returned tour has the returned distance: the entries of the
\* caller's matrix over the consecutive pairs of the tour add up to it.
C3_TourAchievesDistance ==
    \A o \in BOOLEAN :
        Returned(o) => PathLength(given, TourOf(o)) = DistanceOf(o)

C3_Witness ==
    /\ N = 3
    /\ Returned(TRUE)
    /\ Returned(FALSE)
    /\ \E c \in OffDiagonal(3) : given[c] = Infinity
    /\ DistanceOf(FALSE) > DistanceOf(TRUE)

\* C4: the caller's matrix always holds the values the caller gave it,
\* during and after the calls, column 0 included.
C4_CallerMatrixUnchanged == heap["caller"] = given

C4_Witness ==
    /\ outcome[TRUE] # None
    /\ N >= 2
    /\ \A c \in DOMAIN given : c[2] = 0 => given[c] # 0

\* C5 as stated: with finite entries the closed distance is never below the
\* open distance.
C5_ClosedAtLeastOpen ==
    (IsFinite(given) /\ Returned(TRUE) /\ Returned(FALSE))
        => DistanceOf(FALSE) >= DistanceOf(TRUE)

\* C5 amended: with finite entries and no negative distance into node 0
\* (column 0), the closed distance is never below the open distance.
C5_ClosedAtLeastOpenNonNegative ==
    (/\ IsFinite(given)
     /\ \A c \in DOMAIN given : c[2] = 0 => given[c] >= 0
     /\ Returned(TRUE)
     /\ Returned(FALSE))
        => DistanceOf(FALSE) >= DistanceOf(TRUE)

C5_Witness ==
    /\ N = 3
    /\ IsFinite(given)
    /\ \A c \in DOMAIN given : c[2] = 0 => given[c] >= 0
    /\ Returned(TRUE)
    /\ Returned(FALSE)
    /\ DistanceOf(FALSE) > DistanceOf(TRUE)

\* C6 as stated: for a 1 x 1 matrix both calls return the self-distance.
C6_SingleNodeSelfDistance ==
    N = 1 =>
        \A o \in BOOLEAN :
            outcome[o] # None =>
                /\ Returned(o)
                /\ TourOf(o) = (IF o THEN << 0 >> ELSE << 0, 0 >>)
                /\ DistanceOf(o) = given[<< 0, 0 >>]

\* C6 amended: for a 1 x 1 matrix the open call returns tour [0] with
\* distance 0 whatever the self-distance is; the closed call returns for
\* every finite self-distance, and whenever it returns, it returns tour
\* [0, 0] with the self-distance.
C6_SingleNode ==
    N = 1 =>
        /\ outcome[TRUE] # None
             => (Returned(TRUE) /\ outcome[TRUE] = << << 0 >>, 0 >>)
        /\ (outcome[FALSE] # None /\ given[<< 0, 0 >>] # Infinity) => Returned(FALSE)
        /\ Returned(FALSE) => outcome[FALSE] = << << 0, 0 >>, given[<< 0, 0 >>] >>

C6_Witness ==
    /\ N = 1
    /\ given[<< 0, 0 >>] = MaxDist
    /\ Returned(TRUE)
    /\ Returned(FALSE)

\* C7: when every tour has an infinite total distance, the call still
\* returns a (tour, distance) pair, with an infinite distance.
C7_InfiniteStillReturns ==
    \A o \in BOOLEAN :
        (/\ outcome[o] # None
         /\ \A t \in VisitingOrders(N) : TourLength(given, t, o) = Infinity)
            => (Returned(o) /\ DistanceOf(o) = Infinity)

\* C8: among the visiting orders whose distance is the returned one, the
\* returned tour is the first in lexicographic order; for the closed
\* matrix [[0,1,2],[1,0,3],[2,3,0]] the result is ([0,1,2,0], 6).
C8_FirstTieWins ==
    /\ \A o \in BOOLEAN :
          Returned(o) =>
              LET best == SubSeq(TourOf(o), 1, N)
              IN  \A u \in VisitingOrders(N) :
                      TourLength(given, u, o) = DistanceOf(o)
                          => (best = u \/ LexBefore(best, u))
    /\ (given = Literal /\ outcome[FALSE] # None)
          => (Returned(FALSE) /\ outcome[FALSE] = << << 0, 1, 2, 0 >>, 6 >>)

C8_Witness ==
    /\ given = Literal
    /\ Returned(FALSE)
    /\ TourLength(given, << 0, 2, 1 >>, FALSE) = DistanceOf(FALSE)
    /\ TourOf(FALSE) = << 0, 1, 2, 0 >>

\* C9: for a matrix with finite entries, inside an open call the paired sum
\* on the working matrix equals, for every permutation, the sum over the
\* edges 0 -> p[0] -> ... -> p[last] of the caller's matrix; and the open
\* call returns what a solver that skips the return edge returns.
C9_ZeroColumnIsSkippingReturn ==
    IsFinite(given) =>
        /\ (pc = "loop" /\ open_tsp) =>
              \A p \in {examined[k] : k \in 1 .. Len(examined)}
                        \cup {iterator[k] : k \in 1 .. Len(iterator)} :
                  PermutationDistance(p, heap[distance_matrix])
                      = SkipReturnDistance(p, given)
        /\ outcome[TRUE] # None
              => (Returned(TRUE) /\ outcome[TRUE] = SolveSkipping(given))

C9_Witness ==
    /\ N = 3
    /\ IsFinite(given)
    /\ given[<< 1, 0 >>] > 0
    /\ given[<< 2, 0 >>] > 0
    /\ Returned(TRUE)
    /\ DistanceOf(TRUE) > 0

\* C10: inside the loop, best_distance is the least distance of the
\* permutations examined so far (infinity before the first), best_solution
\* is an examined permutation with that distance, and the permutations
\* examined and still to come are the (n-1)! permutations, each once.
C10_LoopInvariant ==
    pc = "loop" =>
        LET W == heap[distance_matrix]
            all == examined \o iterator
        IN  /\ best_distance =
                  IF examined = << >> THEN Infinity
                  ELSE Minimum({PermutationDistance(examined[k], W) :
                                   k \in 1 .. Len(examined)})
            /\ examined # << >> =>
                  /\ best_solution # None
                  /\ \E k \in 1 .. Len(examined) : examined[k] = best_solution
                  /\ PermutationDistance(best_solution, W) = best_distance
            /\ \A i, j \in 1 .. Len(all) : i # j => all[i] # all[j]
            /\ {<< 0 >> \o all[k] : k \in 1 .. Len(all)} = VisitingOrders(N)
====
